---- MODULE Spec2Model ----
(***************************************************************************)
(* Anime-Media-Upscaler: the batch controller (AnimeUpscalerGUI, the main  *)
(* thread) and the job executors (UpscaleWorker, run by a QThreadPool).    *)
(*                                                                         *)
(* A worker's signals are delivered to the controller's slots through the  *)
(* main thread's event queue (queued connections: the emitter runs in a    *)
(* pool thread, the receiver lives in the main thread), so they are        *)
(* handled one at a time, in emission order, interleaved with the user's   *)
(* clicks on Start and Stop.                                               *)
(***************************************************************************)
EXTENDS Integers, Sequences, FiniteSets, TLC

\* ---------------------------------------------------------------- bounds
MaxFiles == 2        \* longest file list of a session with restarts (Spec)
MaxStarts == 2       \* clicks on Start in a session
BatchFiles == 2      \* longest file list of a single batch (BatchSpec)
BatchFrames == 1     \* most frames a video yields in the batch specifications
ProgressFrames == 50 \* most frames the video of a long job yields (ProgressSpec)
MaxFrames == 2       \* most frames the video of the observed job yields (JobSpec)
QueueFiles == 3      \* longest file list of a batch followed through its queue (QueueSpec)
MaxElapsed == 2      \* longest time since Start, in clock ticks, of the observed job (JobSpec)
EditFiles == 2       \* longest file list of a batch whose list is edited (EditSpec)
MaxCandidates == 2   \* most candidate files present when the upscaler is looked for (LocateSpec)

\* QThreadPool.setMaxThreadCount(2)
maxThreadCount == 2

\* a batch dispatches each index of its list at most once
Largest(S) == CHOOSE n \in S : \A m \in S : m <= n
MaxWorkers == Largest({MaxStarts * MaxFiles, BatchFiles, QueueFiles})
Workers == 1..MaxWorkers

Kinds == {"image", "video"}

VARIABLES
  file_list,         \* the QListWidget: a sequence of files (their kinds)
  output_folder,     \* TRUE once an output folder is selected
  processed_files, total_files,
  start_btn, stop_btn, status,
  overall_progress, current_progress,
  current_workers,   \* sequence of worker ids
  main_pc,           \* "idle" | "waitForDone": the main thread inside stop_processing
                     \* | "raised": a slot ended by an exception nothing catches
  events,            \* queued signal deliveries to the main thread, FIFO
  worker,            \* worker id -> UpscaleWorker object and its thread's position
  next_id,           \* id of the next UpscaleWorker to be constructed
  starts,            \* history: calls of start_upscaling that passed validation
  reports,           \* history: calls of processing_completed since the last start
  summary,           \* the count shown by the last "Successfully processed N files"
  dispatched,        \* history: file indices dispatched since the last start
  \* history of the jobs of the running batch and of those still alive, by worker id:
  credit,            \* increments of processed_files the worker's events caused
  advance,           \* calls of process_next_file the worker's events caused
  errored,           \* the worker emitted an error event
  observed,          \* the workers whose run() is recorded in full (see Forget)
  frame_counts,      \* the numbers of frames the extraction of a video may yield
  model_combo,       \* the model id of the entry selected in the model combo box
  advanced_format,   \* the image format of the settings ('advanced_format')
  time_estimate,     \* the elapsed and remaining times on_file_finished computed last
  elapsed_values,    \* the values time.time() - start_time may take, in clock ticks
  installations      \* what a job may find on disk when it looks for the upscaler

ctl_vars == <<file_list, output_folder, processed_files, total_files, start_btn,
              stop_btn, status, overall_progress, current_progress,
              current_workers, main_pc, next_id, starts, reports, summary,
              dispatched, credit, advance, observed, frame_counts, model_combo,
              advanced_format, time_estimate, elapsed_values, installations>>
vars == <<file_list, output_folder, processed_files, total_files, start_btn,
          stop_btn, status, overall_progress, current_progress,
          current_workers, main_pc, events, worker, next_id, starts,
          reports, summary, dispatched, credit, advance, errored, observed, frame_counts,
          model_combo, advanced_format, time_estimate, elapsed_values, installations>>

\* ------------------------------------------------------------- sequences
RECURSIVE SeqsUpTo(_, _)
SeqsUpTo(S, n) ==
  IF n = 0 THEN {<<>>}
  ELSE LET shorter == SeqsUpTo(S, n - 1)
       IN shorter \cup {Append(s, x) : s \in {t \in shorter : Len(t) = n - 1}, x \in S}

RECURSIVE Count(_, _)
Count(s, type) ==
  IF s = <<>> THEN 0
  ELSE (IF Head(s).type = type THEN 1 ELSE 0) + Count(Tail(s), type)

RECURSIVE Without(_, _)
\* list.remove(x): removes the first occurrence
Without(s, x) ==
  IF s = <<>> THEN <<>>
  ELSE IF Head(s) = x THEN Tail(s)
  ELSE <<Head(s)>> \o Without(Tail(s), x)

RECURSIVE SelectConnected(_, _)
Range(s) == {s[i] : i \in 1..Len(s)}

\* ------------------------------------------------------------ the worker
\* UpscaleWorker.__init__, and the history of what its run() did
NoWorker ==
  [pc |-> "none", file_path |-> <<>>, output_path |-> <<>>,
   settings |-> [model |-> <<>>, format |-> ""],
   is_cancelled |-> FALSE, current_process |-> "None",
   frames |-> 0, idx |-> 0,
   emitted |-> <<>>,        \* history: the signals emitted, in order
   spawned |-> <<>>,        \* history: the external processes started, in order
   returned |-> <<>>,       \* history: the external processes that returned, in order
   models_dir |-> [exists |-> FALSE, params |-> {}, bins |-> {}],
                            \* history: the models directory _upscale_image found
   ws |-> "none",           \* the temporary directory: "none" | "exists" | "removed"
   rmtree_calls |-> 0,      \* history: calls of shutil.rmtree(temp_dir)
   located |-> "unknown",   \* history: what _find_realesrgan_executable returned
   probed |-> <<>>,         \* history: the files on disk when it was called last
   exe_path |-> <<>>,       \* history: the path it returned then (<<>>: None)
   ffmpeg_lookups |-> <<>>, \* history: the calls of _get_ffmpeg_path, in order
   temp_audio |-> "none",   \* the job's temp_audio.aac: "none" | "exists" | "removed"
   audio_removals |-> <<>>, \* history: the calls of os.remove(temp_audio), how they ended
   listed |-> -1,           \* history: the number of frames os.listdir(frames_dir) showed
   cancel_at |-> -1,        \* history: frames completed when cancel() came between two frames
   first_cancel |-> [pc |-> "never", spawned |-> 0]]
                            \* history: where run() was, and how many processes it
                            \* had started, when cancel() set the flag

UpscaleWorker(file_path, output_path, settings) ==
  [NoWorker EXCEPT !.pc = "queued", !.file_path = file_path,
                   !.output_path = output_path, !.settings = settings]

\* the object after its last signal was delivered: nothing refers to it any more
Gone == [NoWorker EXCEPT !.pc = "gone"]

\* ------------------------------------------------------------ file paths
\* A path is a sequence of tokens: "/", "." and words, a word being a string
\* without "/" and "." (so that the character-level tests of the code are tests
\* on tokens).
Lower(word) ==
  CASE word = "MP4" -> "mp4"
    [] word = "PNG" -> "png"
    [] OTHER -> word

VideoExts == {"mp4", "avi", "mkv", "mov", "wmv", "flv"}

\* run(): file_path.lower().endswith((".mp4", ".avi", ".mkv", ".mov", ".wmv", ".flv"))
is_video(file_path) ==
  /\ Len(file_path) >= 2
  /\ file_path[Len(file_path) - 1] = "."
  /\ Lower(file_path[Len(file_path)]) \in VideoExts

\* Path(p).name: what follows the last separator
PathName(p) ==
  LET seps == {i \in 1..Len(p) : p[i] = "/"}
  IN IF seps = {} THEN p
     ELSE SubSeq(p, (CHOOSE i \in seps : \A j \in seps : j <= i) + 1, Len(p))

\* name.rfind('.'), 0 when there is none (positions counted from 1)
rfind_dot(name) ==
  LET dots == {i \in 1..Len(name) : name[i] = "."}
  IN IF dots = {} THEN 0 ELSE CHOOSE i \in dots : \A j \in dots : j <= i

\* Path(p).suffix: from the last dot, unless the name begins or ends with it
PathSuffix(p) ==
  LET name == PathName(p)
      i == rfind_dot(name)
  IN IF 1 < i /\ i < Len(name) THEN SubSeq(name, i, Len(name)) ELSE <<>>

\* Path(p).stem
PathStem(p) ==
  LET name == PathName(p)
      i == rfind_dot(name)
  IN IF 1 < i /\ i < Len(name) THEN SubSeq(name, 1, i - 1) ELSE name

\* sub in s, for strings as sequences of characters
contains(s, sub) ==
  \E i \in 1..(Len(s) - Len(sub) + 1) : SubSeq(s, i, i + Len(sub) - 1) = sub

\* process_next_file: the scale tag of the output name
scale_of(model_name) ==
  IF contains(model_name, <<"x", "2">>) THEN "x2"
  ELSE IF contains(model_name, <<"x", "3">>) THEN "x3"
  ELSE IF contains(model_name, <<"x", "4">>) THEN "x4"
  ELSE "x4"

\* process_next_file: f"{file_name}_upscaled_{scale}{output_ext}" (the output
\* folder it is joined to is left out)
output_filename(file_path, settings) ==
  LET file_ext == PathSuffix(file_path)
      output_ext == IF Len(file_ext) = 2 /\ Lower(file_ext[2]) \in VideoExts
                      THEN file_ext
                      ELSE <<".", settings.format>>
  IN PathStem(file_path) \o <<"_upscaled_", scale_of(settings.model)>> \o output_ext

\* the i-th file of a list, of the given kind: distinct names, as add_files_to_list
\* keeps no duplicate
File(i, kind) ==
  <<"f">> \o [j \in 1..i |-> "i"] \o <<".", IF kind = "video" THEN "mp4" ELSE "png">>

Lists(kinds) == {[i \in 1..Len(ks) |-> File(i, ks[i])] : ks \in kinds}

Ev(type, value, msg) == [type |-> type, value |-> value, msg |-> msg]
emit(r, type, value, msg) == [r EXCEPT !.emitted = Append(@, Ev(type, value, msg))]
\* an external process is started: what it is, for the upscaler the -n model and
\* (frames) the index of its frame, for the mux whether temp_audio is an input
spawn_cmd(r, what, model, audio_input) ==
  [r EXCEPT !.spawned = Append(@, [what |-> what, model |-> model, i |-> r.idx,
                                   audio_input |-> audio_input])]
spawn(r, what, model) == spawn_cmd(r, what, model, FALSE)
\* an external process returned: its exit code was 0 or not, and its stderr
returns(r, what, returncode_0, stderr) ==
  [r EXCEPT !.returned = Append(@, [what |-> what, ok |-> returncode_0, stderr |-> stderr])]

\* the history fields are kept for the observed workers only
Forget(r) ==
  [r EXCEPT !.emitted = <<>>, !.spawned = <<>>, !.returned = <<>>,
            !.models_dir = [exists |-> FALSE, params |-> {}, bins |-> {}],
            !.ws = "none", !.rmtree_calls = 0,
            !.located = "unknown", !.probed = <<>>, !.exe_path = <<>>,
            !.ffmpeg_lookups = <<>>, !.listed = -1,
            !.temp_audio = "none", !.audio_removals = <<>>,
            !.cancel_at = -1, !.first_cancel = [pc |-> "never", spawned |-> 0]]
Kept(w, r) == IF w \in observed THEN r ELSE Forget(r)

\* the numbers of frames an extraction may yield
FrameCounts(w) == frame_counts

\* the signals process_next_file connects to slots: finished, error, progress
\* (log is connected to the log widget, result to nothing)
Connected == {"finished", "error", "progress"}

SelectConnected(s, w) ==
  IF s = <<>> THEN <<>>
  ELSE (IF Head(s).type \in Connected
        THEN <<[w |-> w, type |-> Head(s).type, value |-> Head(s).value]>>
        ELSE <<>>) \o SelectConnected(Tail(s), w)

\* a pool thread runs the runnable's code from its first statement until run() returns
Active(r) == r.pc \notin {"none", "queued", "done", "gone"}
InFlight(r) == r.pc \notin {"none", "done", "gone"}
ActiveThreads == {w \in Workers : Active(worker[w])}

\* QThreadPool.start: the runnable runs when a thread is free, oldest first
MayBegin(w) ==
  /\ worker[w].pc = "queued"
  /\ Cardinality(ActiveThreads) < maxThreadCount
  /\ \A v \in Workers : worker[v].pc = "queued" => w <= v

\* one step of worker w's thread, leaving the object as r2: the signals it
\* emitted in the step are posted to the main thread
WorkerStep(w, r2) ==
  /\ worker' = [worker EXCEPT ![w] = Kept(w, r2)]
  /\ events' = events \o
       SelectConnected(SubSeq(r2.emitted, Len(worker[w].emitted) + 1, Len(r2.emitted)), w)
  /\ errored' = [errored EXCEPT ![w] =
                   @ \/ Count(SubSeq(r2.emitted, Len(worker[w].emitted) + 1, Len(r2.emitted)),
                              "error") > 0]
  /\ UNCHANGED ctl_vars

\* --------------------------------------------------- tools and model assets
\* Model ids are sequences of characters; a run of characters without 'x', '2',
\* '3' and '4' is written as one element.
AnimeVideo(n) == <<"realesr-animevideov", "3", "-", "x", n>>
X4Plus == <<"realesrgan-", "x", "4", "plus">>
X4PlusAnime == <<"realesrgan-", "x", "4", "plus-anime">>

\* the values of model_map in get_current_settings
ComboModels == {AnimeVideo("2"), AnimeVideo("3"), AnimeVideo("4"), X4Plus, X4PlusAnime}

\* the image formats of the settings dialog
Formats == {"jpg", "png", "webp"}

\* the model ids that may have files in the models directory
ModelIds == {AnimeVideo("2"), X4Plus}

\* what a job finds on disk when it looks: the models directory (or none) with
\* the .param and .bin files in it
ModelsDirs ==
  [exists : {TRUE}, params : SUBSET ModelIds, bins : SUBSET ModelIds]
    \cup {[exists |-> FALSE, params |-> {}, bins |-> {}]}

\* _get_available_models: the ids with a .param and a .bin file (os.listdir order
\* is not specified: callers take any element as the first)
_get_available_models(dir) == {m \in dir.params : m \in dir.bins}

\* model_map.get(..., 'realesr-animevideov3-x2') and the 'jpg' default of the format
DefaultModel == AnimeVideo("2")
DefaultFormat == "jpg"

\* get_current_settings
get_current_settings == [model |-> model_combo, format |-> advanced_format]

\* ------------------------------------------------ locating the upscaler
\* _find_realesrgan_executable: possible_names and search_paths, the third
\* being os.path.join(os.getcwd(), "bin")
possible_names ==
  <<"realesrgan-ncnn-vulkan", "realesrgan-ncnn-vulkan.exe", "realsr-esrgan", "realsr-esrgan.exe">>
search_paths == <<".", "bin", "cwd/bin">>

\* the directories of os.environ["PATH"], in order
EnvPath == <<"/opt/tools", "/usr/bin">>

\* the directory a search path names: "bin" is relative to the working
\* directory, so the second and the third search path are one directory
DirOf(path) == IF path = "cwd/bin" THEN "bin" ELSE path

\* A disk says, for each directory looked into and each candidate name, what is
\* there: nothing that is a regular file, a regular file, or (in the directories
\* of PATH, where it matters) a regular file with the execute permission.
Dirs == {".", "bin"} \cup Range(EnvPath)
Entries == {"absent", "file", "executable"}
Disk(placed) ==
  [d \in Dirs |-> [n \in Range(possible_names) |->
     IF \E e \in placed : e.dir = d /\ e.name = n
       THEN (CHOOSE e \in placed : e.dir = d /\ e.name = n).entry
       ELSE "absent"]]
Placements ==
  [dir : {".", "bin"}, name : Range(possible_names), entry : {"file"}]
    \cup [dir : Range(EnvPath), name : Range(possible_names), entry : {"file", "executable"}]

\* the disks with at most n candidate files
RECURSIVE SetsUpTo(_, _)
SetsUpTo(S, n) ==
  IF n = 0 THEN {{}}
  ELSE LET smaller == SetsUpTo(S, n - 1)
       IN smaller \cup {P \cup {e} : P \in smaller, e \in S}
Disks(n) ==
  {Disk(placed) : placed \in {P \in SetsUpTo(Placements, n) :
                                \A e, f \in P : e.dir = f.dir /\ e.name = f.name => e = f}}

\* the upscaler is not installed, or it is in bin
Installed ==
  {Disk({}), Disk({[dir |-> "bin", name |-> possible_names[1], entry |-> "file"]})}

\* os.path.join(path, name)
join(path, name) == <<path, "/", name>>

\* os.path.isfile(os.path.join(path, name))
isfile(disk, path, name) == disk[DirOf(path)][name] # "absent"

\* shutil.which(name): the first directory of PATH with an executable file of
\* that name (<<>>: None)
which(disk, name) ==
  LET hits == {i \in 1..Len(EnvPath) : disk[EnvPath[i]][name] = "executable"}
  IN IF hits = {} THEN <<>>
     ELSE join(EnvPath[CHOOSE i \in hits : \A j \in hits : i <= j], name)

\* the first pair of a set of pairs of indices, the first index being the major one
FirstPair(S) == CHOOSE p \in S : \A q \in S : p[1] < q[1] \/ (p[1] = q[1] /\ p[2] <= q[2])

\* mutant: the search paths are probed name by name (for name: for path)
_find_realesrgan_executable_name_major(disk) ==
  LET local == {p \in (1..Len(possible_names)) \X (1..Len(search_paths)) :
                  isfile(disk, search_paths[p[2]], possible_names[p[1]])}
      onpath == {j \in 1..Len(possible_names) : which(disk, possible_names[j]) # <<>>}
  IN IF local # {}
       THEN join(search_paths[FirstPair(local)[2]], possible_names[FirstPair(local)[1]])
     ELSE IF onpath # {}
       THEN which(disk, possible_names[CHOOSE j \in onpath : \A k \in onpath : j <= k])
     ELSE <<>>

\* _find_realesrgan_executable (<<>>: None)
_find_realesrgan_executable(disk) ==
  LET local == {p \in (1..Len(search_paths)) \X (1..Len(possible_names)) :
                  isfile(disk, search_paths[p[1]], possible_names[p[2]])}
      onpath == {j \in 1..Len(possible_names) : which(disk, possible_names[j]) # <<>>}
  IN IF local # {}
       THEN join(search_paths[FirstPair(local)[1]], possible_names[FirstPair(local)[2]])
     ELSE IF onpath # {}
       THEN which(disk, possible_names[CHOOSE j \in onpath : \A k \in onpath : j <= k])
     ELSE <<>>

\* ------------------------------------------- Python float (IEEE-754 binary64)
\* A positive float is [hi, mid, lo, exp]: its value is
\* (hi * Base^2 + mid * Base + lo) * 2^exp, the integer having at most
\* MantissaBits significant binary digits (three limbs of LimbBits digits keep
\* every intermediate number within the checker's integers).
MantissaBits == 53
LimbBits == 18
Base == 262144

Pow2(n) == 2^n

\* the number of binary digits of n, n below 2^30
BitLength(n) == CHOOSE k \in 0..30 : n < 2^k /\ (k = 0 \/ n >= 2^(k - 1))

\* carries propagated from the low limb upwards
Limbs(hi, mid, lo, exp) ==
  [hi |-> hi + (mid + lo \div Base) \div Base,
   mid |-> (mid + lo \div Base) % Base,
   lo |-> lo % Base,
   exp |-> exp]

\* the smallest s with a * 2^s >= b (a and b positive, below 4096)
shift_up(a, b) == CHOOSE s \in 0..12 : a * 2^s >= b /\ (s = 0 \/ a * 2^(s - 1) < b)

\* the largest t with b * 2^t <= a (a >= b)
shift_down(a, b) == CHOOSE t \in 0..12 : b * 2^t <= a /\ b * 2^(t + 1) > a

\* the element of a singleton set; {e : v \in {d}} computes d once for the
\* whole of e
The(S) == CHOOSE v \in S : TRUE

\* a / b for positive ints a and b below 4096: true division, the quotient
\* rounded to nearest, ties to even. n / d is in [1, 2); q1 q2 q3 are the first
\* MantissaBits + 1 binary digits of it, the last one being the guard digit.
float_div(a, b) ==
  The({The({The({The({
    LET guard == q3 % 2
        up == guard = 1 /\ (r3 # 0 \/ (q3 \div 2) % 2 = 1)
    IN Limbs(q1, q2, q3 - guard + (IF up THEN 2 ELSE 0), t - s - MantissaBits)
    : q3 \in {(r2 * Base) \div d}, r3 \in {(r2 * Base) % d}})
    : q2 \in {(r1 * Base) \div d}, r2 \in {(r1 * Base) % d}})
    : d \in {b * Pow2(t)},
      q1 \in {(a * Pow2(s) * Pow2(LimbBits - 1)) \div (b * Pow2(t))},
      r1 \in {(a * Pow2(s) * Pow2(LimbBits - 1)) % (b * Pow2(t))}})
    : s \in {shift_up(a, b)}, t \in {IF a >= b THEN shift_down(a, b) ELSE 0}})

\* x * m for a float x and a positive int m below 4096: the exact product
\* rounded to MantissaBits digits, to nearest, ties to even
float_mul(x, m) ==
  The({The({The({
    LET up == \/ 2 * low > Pow2(drop)
              \/ 2 * low = Pow2(drop) /\ (p.lo \div Pow2(drop)) % 2 = 1
    IN IF drop <= 0 THEN p
       ELSE Limbs(p.hi, p.mid, p.lo - low + (IF up THEN Pow2(drop) ELSE 0), p.exp)
    : low \in {IF drop <= 0 THEN 0 ELSE p.lo % Pow2(drop)}})
    : drop \in {2 * LimbBits + BitLength(p.hi) - MantissaBits}})
    : p \in {Limbs(x.hi * m, x.mid * m, x.lo * m, x.exp)}})

\* int(x) for a positive float x below 2^18: truncation
int_of_float(x) ==
  IF -x.exp >= 2 * LimbBits THEN x.hi \div Pow2(-x.exp - 2 * LimbBits)
  ELSE x.hi * Pow2(2 * LimbBits + x.exp) + x.mid \div Pow2(-x.exp - LimbBits)

\* int(part / whole * 100)
percent(part, whole) ==
  IF part = 0 THEN 0
  ELSE The({The({int_of_float(y) : y \in {float_mul(x, 100)}})
             : x \in {float_div(part, whole)}})

\* 0.0
Zero == [hi |-> 0, mid |-> 0, lo |-> 0, exp |-> 0]

\* n * x for an int n of either sign and a positive float x: a float as its
\* sign and its magnitude
int_mul(n, x) ==
  [negative |-> n < 0,
   magnitude |-> IF n = 0 THEN Zero ELSE float_mul(x, IF n < 0 THEN -n ELSE n)]

\* int((i + 1) / total_frames * 100)
progress_value(done, total_frames) == percent(done, total_frames)

\* ------------------------------------------------------- run(): image path
\* mutant: finished emitted by the except handler as well as by run()'s finally
image_except_and_finished(r, msg) ==
  [emit(emit(r, "error", 0, msg), "finished", 0, "") EXCEPT !.pc = "finally"]

\* except Exception as e: self.signals.error.emit(f"Image upscaling error: ...")
image_except(r, msg) ==
  [emit(r, "error", 0, msg) EXCEPT !.pc = "finally"]

\* f"Model '{requested}' not found, using '{model_name}' instead"
SubstitutionWarningText == "Model not found, using another instead"

\* _upscale_image: the model ids it may pass to the upscaler for the requested
\* one and the models directory found (none: "No Real-ESRGAN models found")
resolve_model(requested, dir) ==
  IF requested \in dir.params THEN {requested}
  ELSE LET available == _get_available_models(dir)
       IN IF requested \in available THEN {requested} ELSE available

\* _upscale_image up to subprocess.Popen: tool and model resolution
upscale_image_begin(w) ==
  /\ MayBegin(w)
  /\ ~is_video(worker[w].file_path)
  /\ \E disk \in installations, dir \in ModelsDirs :
       LET r0 == worker[w]
           exe == _find_realesrgan_executable(disk) # <<>>
           r1 == [r0 EXCEPT !.located = IF exe THEN "found" ELSE "missing",
                            !.probed = disk,
                            !.exe_path = _find_realesrgan_executable(disk),
                            !.models_dir = IF exe THEN dir ELSE @]
           requested == r0.settings.model
           popen(r, model_name) ==
             [spawn(r, "upscaler", model_name) EXCEPT !.current_process = "running",
                                                      !.pc = "communicate"]
       IN IF ~exe
            THEN WorkerStep(w, image_except(r1, "Real-ESRGAN executable not found"))
          ELSE IF ~dir.exists
            THEN WorkerStep(w, image_except(r1, "Real-ESRGAN models directory not found"))
          ELSE IF requested \in dir.params
            THEN WorkerStep(w, popen(r1, requested))
          ELSE IF resolve_model(requested, dir) # {}
            THEN \E model_name \in resolve_model(requested, dir) :
                   WorkerStep(w, popen(emit(r1, "log", 0, SubstitutionWarningText),
                                       model_name))
          ELSE WorkerStep(w, image_except(r1, "No Real-ESRGAN models found"))

\* what the upscaler may have written to its stderr
Stderrs == {"", "vkCreateInstance failed"}

\* mutant: the failure message does not carry the captured stderr
upscaling_failed_without_stderr(stderr) == "Upscaling failed: "

\* RuntimeError(f"Upscaling failed: {stderr}")
upscaling_failed(stderr) ==
  IF stderr = "" THEN "Upscaling failed: " ELSE "Upscaling failed: vkCreateInstance failed"

\* mutant: the result is emitted before the exit code is looked at
communicate_done_result_first(w) ==
  /\ worker[w].pc = "communicate"
  /\ \E exit_0 \in BOOLEAN, stderr \in Stderrs :
       LET returncode_0 == exit_0 /\ worker[w].current_process # "terminated"
           r1 == emit(returns([worker[w] EXCEPT !.current_process = "exited"],
                              "upscaler", returncode_0, stderr),
                      "result", 0, worker[w].output_path)
       IN IF returncode_0
            THEN WorkerStep(w, [r1 EXCEPT !.pc = "finally"])
            ELSE WorkerStep(w, image_except(r1, upscaling_failed(stderr)))

\* communicate() returns: the process exited by itself or was terminated by cancel()
communicate_done(w) ==
  /\ worker[w].pc = "communicate"
  /\ \E exit_0 \in BOOLEAN, stderr \in Stderrs :
       LET returncode_0 == exit_0 /\ worker[w].current_process # "terminated"
           r1 == returns([worker[w] EXCEPT !.current_process = "exited"],
                         "upscaler", returncode_0, stderr)
       IN IF returncode_0
            THEN WorkerStep(w, [emit(r1, "result", 0, r1.output_path) EXCEPT !.pc = "finally"])
            ELSE WorkerStep(w, image_except(r1, upscaling_failed(stderr)))

\* ------------------------------------------------------- run(): video path
CleanupWarningText == "Warning: Could not clean up temporary files"

\* mutant: a failure of the removal is reported as an error of the job
rmtree_escalated(r, ok) ==
  LET r1 == [r EXCEPT !.rmtree_calls = @ + 1,
                      !.ws = IF ok THEN "removed" ELSE @]
  IN IF ok THEN r1 ELSE emit(r1, "error", 0, CleanupWarningText)

\* finally: shutil.rmtree(temp_dir), a failure only logged
rmtree(r, ok) ==
  LET r1 == [r EXCEPT !.rmtree_calls = @ + 1,
                      !.ws = IF ok THEN "removed" ELSE @]
  IN IF ok THEN r1 ELSE emit(r1, "log", 0, CleanupWarningText)

\* an exception inside the inner try: cleanup, then the outer except emits error
video_raise(r, rm_ok, msg) ==
  [emit(rmtree(r, rm_ok), "error", 0, msg) EXCEPT !.pc = "finally"]

\* _get_ffmpeg_path: bin/ffmpeg or shutil.which("ffmpeg") was found or not, the
\* job having started so many processes before
_get_ffmpeg_path(r, found) ==
  [r EXCEPT !.ffmpeg_lookups = Append(@, [found |-> found, at |-> Len(r.spawned)])]

\* mutant: the early return leaves before the cleanup (no try/finally around it)
video_return_without_cleanup(r, rm_ok) ==
  [r EXCEPT !.pc = "finally"]

\* "if self.is_cancelled: return" inside the inner try: cleanup only
video_return(r, rm_ok) ==
  [rmtree(r, rm_ok) EXCEPT !.pc = "finally"]

\* result.emit(output_path), then cleanup
video_success(r, rm_ok) ==
  [rmtree(emit(r, "result", 0, r.output_path), rm_ok) EXCEPT !.pc = "finally"]

\* mutant: the reassembly goes to the mux without the audio extraction
reassemble_begin_without_audio(r, ffmpeg, rm_ok) ==
  IF ffmpeg THEN [spawn(_get_ffmpeg_path(r, TRUE), "mux", <<>>) EXCEPT !.pc = "mux"]
  ELSE video_raise(_get_ffmpeg_path(r, FALSE), rm_ok, "FFmpeg not found")

\* _reassemble_video up to the audio extraction: _get_ffmpeg_path, subprocess.run(audio_cmd)
reassemble_begin(r, ffmpeg, rm_ok) ==
  IF ffmpeg THEN [spawn(_get_ffmpeg_path(r, TRUE), "audio", <<>>) EXCEPT !.pc = "audio"]
  ELSE video_raise(_get_ffmpeg_path(r, FALSE), rm_ok, "FFmpeg not found")

\* mutant: the reassembly follows the frame loop without a look at is_cancelled
after_frames_unchecked(r, ffmpeg, rm_ok) ==
  reassemble_begin(r, ffmpeg, rm_ok)

\* the code after the frame loop: the cancellation check, then reassembly
after_frames(r, ffmpeg, rm_ok) ==
  IF r.is_cancelled THEN video_return(r, rm_ok)
  ELSE reassemble_begin(r, ffmpeg, rm_ok)

\* mutant: the extraction is started with bin/ffmpeg whether it is there or not
upscale_video_begin_unlocated(w) ==
  /\ MayBegin(w)
  /\ is_video(worker[w].file_path)
  /\ \E ffmpeg \in BOOLEAN, rm_ok \in BOOLEAN :
       LET r1 == _get_ffmpeg_path([worker[w] EXCEPT !.ws = "exists"], ffmpeg)
       IN WorkerStep(w, [spawn(r1, "extract", <<>>) EXCEPT !.pc = "extract"])

\* _upscale_video up to the extraction: mkdtemp, makedirs, _get_ffmpeg_path,
\* subprocess.run(extract)
upscale_video_begin(w) ==
  /\ MayBegin(w)
  /\ is_video(worker[w].file_path)
  /\ \E ffmpeg \in BOOLEAN, rm_ok \in BOOLEAN :
       LET r1 == _get_ffmpeg_path([worker[w] EXCEPT !.ws = "exists"], ffmpeg)
       IN IF ffmpeg
            THEN WorkerStep(w, [spawn(r1, "extract", <<>>) EXCEPT !.pc = "extract"])
            ELSE WorkerStep(w, video_raise(r1, rm_ok, "FFmpeg not found"))

\* mutant: _upscale_frames does not look for an empty frame list (its loop then
\* has nothing to do and the reassembly follows)
extract_done_no_empty_check(w) ==
  /\ worker[w].pc = "extract"
  /\ \E returncode_0 \in BOOLEAN, n \in FrameCounts(w), disk \in installations,
        rm_ok \in BOOLEAN :
       LET r0 == returns(worker[w], "extract", returncode_0, "")
           r1 == [r0 EXCEPT !.listed = n]
           exe == _find_realesrgan_executable(disk) # <<>>
           r2 == [r1 EXCEPT !.located = IF exe THEN "found" ELSE "missing",
                            !.probed = disk,
                            !.exe_path = _find_realesrgan_executable(disk)]
       IN IF ~returncode_0
            THEN WorkerStep(w, video_raise(r0, rm_ok, "Frame extraction failed"))
          ELSE IF r0.is_cancelled
            THEN WorkerStep(w, video_return(r0, rm_ok))
          ELSE IF ~exe
            THEN WorkerStep(w, video_raise(r2, rm_ok, "Real-ESRGAN executable not found"))
          ELSE IF n = 0
            THEN WorkerStep(w, after_frames(r2, TRUE, rm_ok))
          ELSE WorkerStep(w, [r2 EXCEPT !.frames = n, !.idx = 0, !.pc = "loop"])

NoFramesText == "No frames were extracted from the video"

\* the extraction returns; the cancellation check; _upscale_frames up to its loop
extract_done(w) ==
  /\ worker[w].pc = "extract"
  /\ \E returncode_0 \in BOOLEAN, n \in FrameCounts(w), disk \in installations,
        rm_ok \in BOOLEAN :
       LET r0 == returns(worker[w], "extract", returncode_0, "")
           r1 == [r0 EXCEPT !.listed = n]
           exe == _find_realesrgan_executable(disk) # <<>>
           r2 == [r1 EXCEPT !.located = IF exe THEN "found" ELSE "missing",
                            !.probed = disk,
                            !.exe_path = _find_realesrgan_executable(disk)]
       IN IF ~returncode_0
            THEN WorkerStep(w, video_raise(r0, rm_ok, "Frame extraction failed"))
          ELSE IF r0.is_cancelled
            THEN WorkerStep(w, video_return(r0, rm_ok))
          ELSE IF n = 0
            THEN WorkerStep(w, video_raise(r1, rm_ok, NoFramesText))
          ELSE IF ~exe
            THEN WorkerStep(w, video_raise(r2, rm_ok, "Real-ESRGAN executable not found"))
          ELSE WorkerStep(w, [r2 EXCEPT !.frames = n, !.idx = 0, !.pc = "loop"])

\* mutant: the loop does not look at is_cancelled
loop_check_unchecked(w) ==
  /\ worker[w].pc = "loop"
  /\ WorkerStep(w, [spawn(worker[w], "frame", worker[w].settings.model) EXCEPT !.pc = "frame"])

\* the head of the frame loop: "if self.is_cancelled: break", else the frame's
\* upscaler is started
loop_check(w) ==
  /\ worker[w].pc = "loop"
  /\ \E ffmpeg \in BOOLEAN, rm_ok \in BOOLEAN :
       LET r0 == worker[w]
       IN IF r0.is_cancelled
            THEN WorkerStep(w, after_frames(r0, ffmpeg, rm_ok))
            ELSE WorkerStep(w, [spawn(r0, "frame", r0.settings.model) EXCEPT !.pc = "frame"])

FrameWarningText == "Warning: Frame failed to upscale"

\* mutant: a frame's non-zero exit is fatal for the job
frame_done_fatal(w) ==
  /\ worker[w].pc = "frame"
  /\ \E returncode_0 \in BOOLEAN, ffmpeg \in BOOLEAN, rm_ok \in BOOLEAN :
       LET r0 == returns(worker[w], "frame", returncode_0, "")
           r2 == [emit(r0, "progress", progress_value(r0.idx + 1, r0.frames), "")
                    EXCEPT !.idx = @ + 1]
       IN IF ~returncode_0
            THEN WorkerStep(w, video_raise(r0, rm_ok, "Upscaling failed"))
          ELSE IF r2.idx < r2.frames
            THEN WorkerStep(w, [r2 EXCEPT !.pc = "loop"])
            ELSE WorkerStep(w, after_frames(r2, ffmpeg, rm_ok))

\* a frame's upscaler returns: warning on failure, progress, next iteration or
\* the end of the loop
frame_done(w) ==
  /\ worker[w].pc = "frame"
  /\ \E returncode_0 \in BOOLEAN, ffmpeg \in BOOLEAN, rm_ok \in BOOLEAN :
       LET r0 == returns(worker[w], "frame", returncode_0, "")
           r1 == IF returncode_0 THEN r0
                 ELSE emit(r0, "log", 0, FrameWarningText)
           r2 == [emit(r1, "progress", progress_value(r0.idx + 1, r0.frames), "")
                    EXCEPT !.idx = @ + 1]
       IN IF r2.idx < r2.frames
            THEN WorkerStep(w, [r2 EXCEPT !.pc = "loop"])
            ELSE WorkerStep(w, after_frames(r2, ffmpeg, rm_ok))

\* os.path.dirname(p): what precedes the last separator
dirname(p) ==
  LET seps == {i \in 1..Len(p) : p[i] = "/"}
  IN IF seps = {} THEN <<>>
     ELSE SubSeq(p, 1, (CHOOSE i \in seps : \A j \in seps : j <= i) - 1)

\* _reassemble_video: os.path.join(os.path.dirname(output_path), "temp_audio.aac")
\* (as output_path, relative to the output folder)
temp_audio_path(output_path) ==
  (IF dirname(output_path) = <<>> THEN <<>> ELSE dirname(output_path) \o <<"/">>)
    \o <<"temp_audio", ".", "aac">>

\* the audio extraction returns (its result is not looked at); the mux is started
\* with the frames and temp_audio as its inputs
audio_done(w) ==
  /\ worker[w].pc = "audio"
  /\ \E returncode_0 \in BOOLEAN, written \in BOOLEAN :
       \* ffmpeg exited with code 0 and wrote temp_audio, or failed, leaving a
       \* file behind or not
       /\ returncode_0 => written
       /\ WorkerStep(w, [spawn_cmd(returns(worker[w], "audio", returncode_0, ""),
                                   "mux", <<>>, TRUE)
                          EXCEPT !.pc = "mux",
                                 !.temp_audio = IF written THEN "exists" ELSE @])

\* try: os.remove(temp_audio) except: pass
remove_temp_audio(r, ok) ==
  IF r.temp_audio # "exists" THEN [r EXCEPT !.audio_removals = Append(@, "absent")]
  ELSE IF ok THEN [r EXCEPT !.audio_removals = Append(@, "removed"), !.temp_audio = "removed"]
  ELSE [r EXCEPT !.audio_removals = Append(@, "failed")]

\* mutant: the failure of the mux is raised before temp_audio is removed
mux_done_raise_first(w) ==
  /\ worker[w].pc = "mux"
  /\ \E returncode_0 \in BOOLEAN, rm_ok \in BOOLEAN, remove_ok \in BOOLEAN :
       LET r0 == returns(worker[w], "mux", returncode_0, "")
       IN /\ (worker[w].temp_audio # "exists" \/ ~returncode_0) => remove_ok
          /\ IF returncode_0
               THEN WorkerStep(w, video_success(remove_temp_audio(r0, remove_ok), rm_ok))
               ELSE WorkerStep(w, video_raise(r0, rm_ok, "Video reassembly failed"))

\* the mux returns: temp_audio removed, then result or "Video reassembly failed"
mux_done(w) ==
  /\ worker[w].pc = "mux"
  /\ \E returncode_0 \in BOOLEAN, rm_ok \in BOOLEAN, remove_ok \in BOOLEAN :
       LET r0 == remove_temp_audio(returns(worker[w], "mux", returncode_0, ""), remove_ok)
       IN /\ worker[w].temp_audio # "exists" => remove_ok
          /\ IF returncode_0
               THEN WorkerStep(w, video_success(r0, rm_ok))
               ELSE WorkerStep(w, video_raise(r0, rm_ok, "Video reassembly failed"))

\* run(): finally: self.signals.finished.emit(); the thread is free again
run_finally(w) ==
  /\ worker[w].pc = "finally"
  /\ WorkerStep(w, [emit(worker[w], "finished", 0, "") EXCEPT !.pc = "done"])

\* cancel()
cancel(r) ==
  [r EXCEPT !.is_cancelled = TRUE,
            !.current_process = IF @ = "running" THEN "terminated" ELSE @,
            !.cancel_at = IF ~r.is_cancelled /\ r.pc = "loop" THEN r.idx ELSE @,
            !.first_cancel = IF ~r.is_cancelled
                               THEN [pc |-> r.pc, spawned |-> Len(r.spawned)] ELSE @]

\* -------------------------------------------------------- the controller
\* the main thread's view while a slot runs: the fields a slot reads and
\* writes, and the worker objects it constructs or cancels
Cur ==
  [processed_files |-> processed_files, total_files |-> total_files,
   start_btn |-> start_btn, stop_btn |-> stop_btn, status |-> status,
   overall_progress |-> overall_progress, current_progress |-> current_progress,
   current_workers |-> current_workers, main_pc |-> main_pc,
   worker |-> worker, next_id |-> next_id,
   reports |-> reports, summary |-> summary,
   dispatched |-> dispatched,
   time_estimate |-> time_estimate,
   calls |-> 0]      \* history: calls of process_next_file made by the running slot

Commit(c) ==
  /\ processed_files' = c.processed_files
  /\ total_files' = c.total_files
  /\ start_btn' = c.start_btn
  /\ stop_btn' = c.stop_btn
  /\ status' = c.status
  /\ overall_progress' = c.overall_progress
  /\ current_progress' = c.current_progress
  /\ current_workers' = c.current_workers
  /\ main_pc' = c.main_pc
  /\ worker' = [w \in Workers |-> Kept(w, c.worker[w])]
  /\ next_id' = c.next_id
  /\ reports' = c.reports
  /\ summary' = c.summary
  /\ dispatched' = c.dispatched
  /\ time_estimate' = c.time_estimate

\* processing_completed
processing_completed(c) ==
  [c EXCEPT !.start_btn = TRUE, !.stop_btn = FALSE, !.status = "Completed!",
            !.summary = c.total_files, !.reports = @ + 1]

\* stop_processing up to thread_pool.waitForDone(5000): cancel() on every
\* worker of current_workers, then the main thread blocks
stop_processing(c) ==
  [c EXCEPT !.worker = [w \in Workers |->
                          IF w \in Range(c.current_workers) THEN cancel(c.worker[w])
                          ELSE c.worker[w]],
            !.main_pc = "waitForDone"]

\* stop_processing after waitForDone returned (all threads done, or 5 s passed)
stop_processing_end(c) ==
  [c EXCEPT !.start_btn = TRUE, !.stop_btn = FALSE, !.status = "Stopped",
            !.main_pc = "idle"]

\* process_next_file
process_next_file(c0) ==
  LET c == [c0 EXCEPT !.calls = @ + 1]
  IN IF c.processed_files >= c.total_files THEN processing_completed(c)
     ELSE IF ~output_folder THEN stop_processing(c)
     \* self.file_list.item(row) is None for a row the list does not have:
     \* None.text() raises AttributeError out of the slot
     ELSE IF c.processed_files + 1 > Len(file_list) THEN [c EXCEPT !.main_pc = "raised"]
     ELSE LET file_path == file_list[c.processed_files + 1]
              id == c.next_id
              output_path == output_filename(file_path, get_current_settings)
          IN [c EXCEPT !.worker = [@ EXCEPT ![id] = UpscaleWorker(file_path, output_path,
                                                                  get_current_settings)],
                       !.current_workers = Append(@, id),
                       !.next_id = id + 1,
                       !.dispatched = @ \cup {c.processed_files + 1}]

\* start_upscaling after its three validations
start_upscaling(c) ==
  process_next_file(
    [c EXCEPT !.overall_progress = 0, !.current_progress = 0,
              !.processed_files = 0, !.total_files = Len(file_list),
              !.start_btn = FALSE, !.stop_btn = TRUE, !.status = "Processing...",
              !.current_workers = <<>>,
              !.reports = 0, !.dispatched = {}])

\* on_file_finished: "Update time estimates", elapsed being time.time() -
\* start_time: avg_time = elapsed / processed_files,
\* remaining = (total_files - processed_files) * avg_time
update_time_estimates(c, elapsed) ==
  IF c.processed_files > 0
  THEN [c EXCEPT !.time_estimate =
          [elapsed |-> elapsed,
           remaining |-> int_mul(c.total_files - c.processed_files,
                                 float_div(elapsed, c.processed_files))]]
  ELSE c

\* mutant: the slot counts the file but does not go on to the next one
on_file_finished_no_next(c, w, elapsed) ==
  The({[c2 EXCEPT !.current_progress = 0]
       : c2 \in {update_time_estimates(c1, elapsed)
                  : c1 \in {[c EXCEPT !.current_workers = Without(@, w),
                                      !.processed_files = @ + 1,
                                      !.overall_progress =
                                        percent(c.processed_files + 1, c.total_files)]}}})

\* on_file_finished, sender() being worker w's signals object
on_file_finished(c, w, elapsed) ==
  The({process_next_file([c2 EXCEPT !.current_progress = 0])
       : c2 \in {update_time_estimates(c1, elapsed)
                  : c1 \in {[c EXCEPT !.current_workers = Without(@, w),
                                      !.processed_files = @ + 1,
                                      !.overall_progress =
                                        percent(c.processed_files + 1, c.total_files)]}}})

\* mutant: the slot goes on to the next file without counting the failed one
on_error_without_count(c, w) ==
  process_next_file(c)

\* on_error
on_error(c, w) ==
  process_next_file([c EXCEPT !.processed_files = @ + 1])

\* ------------------------------------------------------------ the actions
Credit(c, w) ==
  /\ credit' = [credit EXCEPT ![w] = @ + (c.processed_files - processed_files)]
  /\ advance' = [advance EXCEPT ![w] = @ + c.calls]

\* the user selects an output folder
select_output_folder ==
  /\ main_pc = "idle"
  /\ ~output_folder
  /\ output_folder' = TRUE
  /\ UNCHANGED <<file_list, processed_files, total_files, start_btn, stop_btn, status,
                 overall_progress, current_progress, current_workers, main_pc, events,
                 worker, next_id, starts, reports, summary, dispatched, credit,
                 advance, errored, observed, frame_counts, model_combo, advanced_format,
                 time_estimate, elapsed_values, installations>>

\* the user clicks Start
click_start ==
  /\ main_pc = "idle"
  /\ start_btn
  /\ starts < MaxStarts
  /\ Len(file_list) > 0
  /\ output_folder
  /\ Commit(start_upscaling(Cur))
  /\ starts' = starts + 1
  /\ credit' = [w \in Workers |-> IF worker[w].pc = "gone" THEN 0 ELSE credit[w]]
  /\ advance' = [w \in Workers |-> IF worker[w].pc = "gone" THEN 0 ELSE advance[w]]
  /\ errored' = [w \in Workers |-> IF worker[w].pc = "gone" THEN FALSE ELSE errored[w]]
  /\ UNCHANGED <<file_list, output_folder, events, observed, frame_counts, model_combo, advanced_format, elapsed_values, installations>>

\* the user clicks Stop: the main thread cancels and starts waiting
click_stop ==
  /\ main_pc = "idle"
  /\ stop_btn
  /\ Commit(stop_processing(Cur))
  /\ UNCHANGED <<file_list, output_folder, events, starts, credit, advance, errored, observed, frame_counts, model_combo, advanced_format, elapsed_values, installations>>

\* waitForDone returns, the pool being idle or not
wait_returns ==
  /\ main_pc = "waitForDone"
  /\ Commit(stop_processing_end(Cur))
  /\ UNCHANGED <<file_list, output_folder, events, starts, credit, advance, errored, observed, frame_counts, model_combo, advanced_format, elapsed_values, installations>>

\* the main thread delivers the oldest queued signal to its slot
deliver_progress ==
  /\ main_pc = "idle"
  /\ events # <<>>
  /\ Head(events).type = "progress"
  /\ current_progress' = Head(events).value
  /\ events' = Tail(events)
  /\ UNCHANGED <<file_list, output_folder, processed_files, total_files, start_btn,
                 stop_btn, status, overall_progress, current_workers, main_pc,
                 worker, next_id, starts, reports, summary, dispatched, credit,
                 advance, errored, observed, frame_counts, model_combo, advanced_format,
                 time_estimate, elapsed_values, installations>>

deliver_error ==
  /\ main_pc = "idle"
  /\ events # <<>>
  /\ Head(events).type = "error"
  /\ LET c == on_error(Cur, Head(events).w)
     IN Commit(c) /\ Credit(c, Head(events).w)
  /\ events' = Tail(events)
  /\ UNCHANGED <<file_list, output_folder, starts, errored, observed, frame_counts, model_combo, advanced_format, elapsed_values, installations>>

\* finished is a worker's last signal: after its delivery the object is garbage
deliver_finished ==
  /\ main_pc = "idle"
  /\ events # <<>>
  /\ Head(events).type = "finished"
  /\ \E elapsed \in elapsed_values :
       LET w == Head(events).w
           c == on_file_finished(Cur, w, elapsed)
       IN /\ Commit([c EXCEPT !.worker = [@ EXCEPT ![w] = Gone]])
          /\ Credit(c, w)
  /\ events' = Tail(events)
  /\ UNCHANGED <<file_list, output_folder, starts, errored, observed, frame_counts, model_combo, advanced_format, elapsed_values, installations>>

\* what the list-editing handlers leave alone
but_file_list ==
  <<output_folder, processed_files, total_files, start_btn, stop_btn, status,
    overall_progress, current_progress, current_workers, main_pc, events,
    worker, next_id, starts, reports, summary, dispatched, credit,
    advance, errored, observed, frame_counts, model_combo, advanced_format,
    time_estimate, elapsed_values, installations>>

\* add_files_to_list with one file (by dialog or by drop): appended unless its
\* path is in the list already
add_files_to_list ==
  /\ main_pc = "idle"
  /\ Len(file_list) < EditFiles
  /\ \E i \in 1..EditFiles, kind \in Kinds :
       file_list' = IF File(i, kind) \in Range(file_list) THEN file_list
                    ELSE Append(file_list, File(i, kind))
  /\ UNCHANGED but_file_list

\* clear_files
clear_files ==
  /\ main_pc = "idle"
  /\ file_list' = <<>>
  /\ UNCHANGED but_file_list

\* the user drags the item of one row to another row (DragDropMode.InternalMove)
move_item ==
  /\ main_pc = "idle"
  /\ \E from \in 1..Len(file_list), to \in 1..Len(file_list) :
       LET rest == SubSeq(file_list, 1, from - 1) \o SubSeq(file_list, from + 1, Len(file_list))
       IN file_list' = SubSeq(rest, 1, to - 1) \o <<file_list[from]>>
                         \o SubSeq(rest, to, Len(rest))
  /\ UNCHANGED but_file_list

\* the window after construction, files added to the list
InitWith(lists, obs, counts, models, formats, ticks, disks) ==
  /\ file_list \in lists
  /\ output_folder \in BOOLEAN
  /\ processed_files = 0
  /\ total_files = 0
  /\ start_btn = TRUE
  /\ stop_btn = FALSE
  /\ status = "Ready"
  /\ overall_progress = 0
  /\ current_progress = 0
  /\ current_workers = <<>>
  /\ main_pc = "idle"
  /\ events = <<>>
  /\ worker = [w \in Workers |-> NoWorker]
  /\ next_id = 1
  /\ starts = 0
  /\ reports = 0
  /\ summary = 0
  /\ dispatched = {}
  /\ credit = [w \in Workers |-> 0]
  /\ advance = [w \in Workers |-> 0]
  /\ errored = [w \in Workers |-> FALSE]
  /\ observed = obs
  /\ frame_counts = counts
  /\ model_combo \in models
  /\ advanced_format \in formats
  /\ time_estimate = [elapsed |-> 0, remaining |-> [negative |-> FALSE, magnitude |-> Zero]]
  /\ elapsed_values = ticks
  /\ installations \in disks

Init == InitWith(Lists(SeqsUpTo(Kinds, MaxFiles) \ {<<>>}), {}, 0..BatchFrames,
                 {DefaultModel}, {DefaultFormat}, {1}, {Installed})

WorkerNext(w) ==
  \/ upscale_image_begin(w)
  \/ communicate_done(w)
  \/ upscale_video_begin(w)
  \/ extract_done(w)
  \/ loop_check(w)
  \/ frame_done(w)
  \/ audio_done(w)
  \/ mux_done(w)
  \/ run_finally(w)

Next ==
  \/ select_output_folder
  \/ click_start
  \/ click_stop
  \/ wait_returns
  \/ deliver_progress
  \/ deliver_error
  \/ deliver_finished
  \/ \E w \in Workers : WorkerNext(w)

\* a session: batches started, stopped and started again
Spec == Init /\ [][Next]_vars

\* one batch: Start is clicked once
OneBatch == Next /\ starts' <= 1
BatchInit == InitWith(Lists(SeqsUpTo(Kinds, BatchFiles) \ {<<>>}), {}, 0..BatchFrames,
                      {DefaultModel}, {DefaultFormat}, {1}, {Installed})
BatchSpec == BatchInit /\ [][OneBatch]_vars

\* the pool runs every started runnable and the event loop delivers every
\* queued signal; the user owes no click
Fairness ==
  /\ \A w \in Workers : WF_vars(WorkerNext(w))
  /\ WF_vars(deliver_progress)
  /\ WF_vars(deliver_error)
  /\ WF_vars(deliver_finished)
  /\ WF_vars(wait_returns)
FairBatchSpec == BatchSpec /\ Fairness

\* one job, its run() recorded in full, cancel() coming at any moment or never
JobInit == InitWith(Lists({<<k>> : k \in Kinds}), {1}, 0..MaxFrames,
                    {DefaultModel}, {DefaultFormat}, 1..MaxElapsed, {Installed})
JobSpec == JobInit /\ [][OneBatch]_vars

\* one job whose video may be long, its progress values followed to the widget
ProgressInit == InitWith(Lists({<<k>> : k \in Kinds}), {}, 0..ProgressFrames,
                         {DefaultModel}, {DefaultFormat}, {1}, {Installed})
ProgressSpec == ProgressInit /\ [][OneBatch]_vars

\* one batch of up to QueueFiles files
QueueInit == InitWith(Lists(SeqsUpTo(Kinds, QueueFiles) \ {<<>>}), {}, 0..BatchFrames,
                      {DefaultModel}, {DefaultFormat}, {1}, {Installed})
QueueSpec == QueueInit /\ [][OneBatch]_vars

\* the names a file of the list may have (files are added by dialog or by drop,
\* whatever their names)
NamePaths ==
  {<<"clip", ".", "mp4">>, <<"clip", ".", "MP4">>, <<"photo", ".", "png">>,
   <<"a", ".", "tar", ".", "PNG">>, <<"noext">>, <<".", "mp4">>,
   <<"d", ".", "x", "/", "photo", ".", "png">>}

\* one job, over the file names, the models of the combo box and the formats
NameInit == InitWith({<<p>> : p \in NamePaths}, {}, 0..BatchFrames, ComboModels, Formats, {1}, {Installed})
NameSpec == NameInit /\ [][OneBatch]_vars

\* one batch of two files, over the file names (the list keeps no duplicate)
PairInit == InitWith({<<p, q>> : p \in NamePaths, q \in NamePaths} \ {<<p, p>> : p \in NamePaths},
                     {}, 0..BatchFrames, {DefaultModel}, {DefaultFormat}, {1}, {Installed})
PairSpec == PairInit /\ [][OneBatch]_vars

\* one batch whose list the user edits while it runs
EditNext == OneBatch \/ add_files_to_list \/ clear_files \/ move_item
EditInit == InitWith(Lists(SeqsUpTo(Kinds, EditFiles) \ {<<>>}), {}, 0..BatchFrames,
                     {DefaultModel}, {DefaultFormat}, {1}, {Installed})
EditSpec == EditInit /\ [][EditNext]_vars

\* one job, over what is on disk when it looks for the upscaler
LocateInit == InitWith(Lists({<<k>> : k \in Kinds}), {1}, {BatchFrames},
                       {DefaultModel}, {DefaultFormat}, {1},
                       {{disk} : disk \in Disks(MaxCandidates)})
LocateSpec == LocateInit /\ [][OneBatch]_vars

\* ================================================================ claims
HasLog(r, msg) == \E i \in 1..Len(r.emitted) : r.emitted[i].type = "log" /\ r.emitted[i].msg = msg
Spawned(r, what) == \E i \in 1..Len(r.spawned) : r.spawned[i].what = what
Last(q) == q[Len(q)]

\* a dispatched job that has not reached a terminal state: its runnable waits in
\* the pool or its pipeline is still running
Unfinished(r) == r.pc \notin {"none", "finally", "done", "gone"}

\* C1: within one batch, whatever worker events were handled, processed_files
\* has never decreased and never exceeds total_files, also when jobs fail.
C1_CounterMonotoneAndBounded ==
  [][/\ processed_files' <= total_files'
     /\ (starts' = starts => processed_files' >= processed_files)]_vars

\* C2: once all events of a job that emitted error are handled, the job has
\* increased processed_files by exactly one and caused exactly one call of
\* process_next_file, as a successful job does.
C2_FailedJobCountsOnce ==
  \A w \in Workers :
    (worker[w].pc = "gone" /\ errored[w]) => (credit[w] = 1 /\ advance[w] = 1)

\* C3: while completion is being reported ("Completed!"), no dispatched worker
\* is still running or still waiting in the pool.
C3_CompletedOnlyWhenAllTerminal ==
  status = "Completed!" => \A w \in Workers : ~Unfinished(worker[w])

\* C5: once stop_processing has put the batch in the Stopped state, no further
\* worker is constructed for that batch, whatever events are delivered later.
C5_NoDispatchAfterStop ==
  [][(status = "Stopped" /\ starts' = starts) => next_id' = next_id]_vars

\* C6: stop_processing sets the cancellation flag of every worker that is in
\* flight (dispatched, not yet finished) when it is called, and when its wait returns the controller is in the
\* stopped state (Start enabled, Stop disabled, status Stopped).
C6_StopCancelsEveryInFlightWorker ==
  [][/\ (main_pc = "idle" /\ main_pc' = "waitForDone")
          => \A w \in Workers : Unfinished(worker[w]) => worker'[w].is_cancelled
     /\ (main_pc = "waitForDone" /\ main_pc' = "idle")
          => (start_btn' /\ ~stop_btn' /\ status' = "Stopped")]_vars

C7_ExeNotFoundSpawnsNothing ==
  \A w \in Workers :
    (worker[w].pc = "done" /\ worker[w].located = "missing")
      => /\ Count(worker[w].emitted, "error") = 1
         /\ Count(worker[w].emitted, "finished") = 1
         /\ worker[w].spawned = <<>>

\* C8 as stated: when a video job is in a terminal state, its temporary
\* directory does not exist.
C8_WorkspaceAbsentWhenTerminal ==
  \A w \in Workers :
    (worker[w].pc = "done" /\ is_video(worker[w].file_path)) => worker[w].ws # "exists"

\* C8 amended: when a video job is in a terminal state (success, error or
\* cancellation), shutil.rmtree was called exactly once on its temporary
\* directory, and the directory no longer exists unless that call failed, which
\* the job logged as a warning.
C8_WorkspaceRemovedUnlessRmtreeFails ==
  \A w \in Workers :
    (worker[w].pc = "done" /\ is_video(worker[w].file_path))
      => /\ worker[w].rmtree_calls = 1
         /\ worker[w].ws = "exists" <=> HasLog(worker[w], CleanupWarningText)
         /\ worker[w].ws \in {"exists", "removed"}

\* a video job cancelled between two frames has ended and its directory is gone
C8_Witness ==
  \E w \in Workers :
    /\ worker[w].pc = "done"
    /\ worker[w].cancel_at >= 1
    /\ worker[w].ws = "removed"

C10_FinishedOnceAndLast ==
  \A w \in Workers :
    /\ worker[w].pc = "done"
         => /\ Count(worker[w].emitted, "finished") = 1
            /\ Last(worker[w].emitted).type = "finished"
    /\ worker[w].pc \in {"queued", "communicate", "extract", "loop", "frame", "audio", "mux"}
         => Count(worker[w].emitted, "finished") = 0

\* an image job whose upscaler was not found has ended: error, then finished
C10_Witness ==
  \E w \in Workers :
    /\ worker[w].pc = "done"
    /\ worker[w].located = "missing"
    /\ ~is_video(worker[w].file_path)
    /\ Count(worker[w].emitted, "error") = 1

\* C11: a job emits at most one of result and error, at most one error, and a
\* result only after its last external process (the upscaler of an image, the
\* mux of a video) exited with code 0.
C11_AtMostOneOutcome ==
  \A w \in Workers :
    /\ Count(worker[w].emitted, "error") + Count(worker[w].emitted, "result") <= 1
    /\ Count(worker[w].emitted, "result") = 1
         => /\ worker[w].returned # <<>>
            /\ Last(worker[w].returned).ok
            /\ Last(worker[w].returned).what
                 = (IF is_video(worker[w].file_path) THEN "mux" ELSE "upscaler")
            /\ \A i \in 1..Len(worker[w].returned) :
                 worker[w].returned[i].what = "extract" => worker[w].returned[i].ok

\* a video job has ended with a result, and nothing after it but finished
C11_Witness ==
  \E w \in Workers :
    /\ worker[w].pc = "done"
    /\ is_video(worker[w].file_path)
    /\ Count(worker[w].emitted, "result") = 1
    /\ Count(worker[w].emitted, "error") = 0

\* the image job could not resolve its tool or its model
ResolutionFailed(r) ==
  \/ r.located = "missing"
  \/ ~r.models_dir.exists
  \/ r.settings.model \notin r.models_dir.params /\ _get_available_models(r.models_dir) = {}

\* the text of an error that carries what the upscaler wrote to stderr
WithDiagnostic(stderr) ==
  IF stderr = "vkCreateInstance failed"
  THEN "Upscaling failed: vkCreateInstance failed"
  ELSE "Upscaling failed: "

C13_InvalidModelFallsBack ==
  \A w \in Workers :
    (/\ worker[w].pc = "done"
     /\ ~is_video(worker[w].file_path)
     /\ worker[w].located = "found"
     /\ worker[w].models_dir.exists)
      => LET valid == _get_available_models(worker[w].models_dir)
         IN /\ (worker[w].settings.model \notin valid /\ valid # {})
                 => /\ Len(worker[w].spawned) = 1
                    /\ worker[w].spawned[1].model \in valid
                    /\ HasLog(worker[w], SubstitutionWarningText)
            /\ worker[w].spawned = <<>> => valid = {}

\* the positions of the log entries with the given text
Logs(r, msg) == {i \in 1..Len(r.emitted) : r.emitted[i].type = "log" /\ r.emitted[i].msg = msg}
Returned(r, what) == {i \in 1..Len(r.returned) : r.returned[i].what = what}
HasError(r, msg) ==
  \E i \in 1..Len(r.emitted) : r.emitted[i].type = "error" /\ r.emitted[i].msg = msg

\* C17: in a video job every external process is started after the one before
\* it returned; the first is the extraction, then the frames in ascending index
\* order, then (after the last frame returned) the audio extraction, then the mux;
\* a job that was not cancelled and emitted no error has started exactly N+3
\* processes for its N frames.
C17_StageOrder ==
  \A w \in Workers :
    is_video(worker[w].file_path)
      => LET sp == worker[w].spawned
             rt == worker[w].returned
         IN /\ Len(sp) - Len(rt) \in {0, 1}
            /\ \A j \in 1..Len(rt) : rt[j].what = sp[j].what
            /\ \A j \in 1..Len(sp) :
                 /\ j = 1 <=> sp[j].what = "extract"
                 /\ sp[j].what = "frame" => (sp[j].i = j - 2 /\ j - 2 < worker[w].frames)
                 /\ sp[j].what = "audio" => (j = worker[w].frames + 2 /\ sp[j - 1].what = "frame")
                 /\ sp[j].what = "mux" => (j = worker[w].frames + 3 /\ sp[j - 1].what = "audio")
                 /\ sp[j].what \in {"extract", "frame", "audio", "mux"}
            /\ (/\ worker[w].pc = "done"
                /\ ~worker[w].is_cancelled
                /\ Count(worker[w].emitted, "error") = 0)
                 => (worker[w].frames >= 1 /\ Len(sp) = worker[w].frames + 3)

\* an uncancelled video job of MaxFrames frames has ended with a result
C17_Witness ==
  \E w \in Workers :
    /\ worker[w].pc = "done"
    /\ ~worker[w].is_cancelled
    /\ worker[w].frames = MaxFrames
    /\ Len(worker[w].spawned) = MaxFrames + 3
    /\ Count(worker[w].emitted, "result") = 1

\* C18: a frame's non-zero exit is logged as a warning and is not an error: each
\* returned frame has its progress update, each failed frame its warning, the
\* loop goes on through all frames unless the job is cancelled, reassembly is
\* entered, and the job succeeds if the mux does.
C18_FrameFailureTolerated ==
  \A w \in Workers :
    is_video(worker[w].file_path)
      => LET r == worker[w]
             failed == {i \in Returned(r, "frame") : ~r.returned[i].ok}
         IN /\ Count(r.emitted, "progress") = Cardinality(Returned(r, "frame"))
            /\ Cardinality(Logs(r, FrameWarningText)) = Cardinality(failed)
            /\ (r.pc = "done" /\ failed # {} /\ ~r.is_cancelled)
                 => /\ Cardinality(Returned(r, "frame")) = r.frames
                    /\ Spawned(r, "audio") \/ HasError(r, "FFmpeg not found")
                    /\ Last(r.returned).what = "mux" /\ Last(r.returned).ok
                         => (Count(r.emitted, "result") = 1 /\ Count(r.emitted, "error") = 0)

\* a job whose first frame failed has gone through all its frames and succeeded
C18_Witness ==
  \E w \in Workers :
    /\ worker[w].pc = "done"
    /\ worker[w].frames = MaxFrames
    /\ Count(worker[w].emitted, "progress") = MaxFrames
    /\ ~worker[w].returned[2].ok
    /\ Count(worker[w].emitted, "result") = 1

C20_MuxWithoutMissingAudio ==
  \A w \in Workers :
    (\E i \in Returned(worker[w], "audio") : ~worker[w].returned[i].ok)
      => \A j \in 1..Len(worker[w].spawned) :
           worker[w].spawned[j].what = "mux" => ~worker[w].spawned[j].audio_input

\* C16: the progress value emitted when the i-th of N frames has been processed
\* is floor(i * 100 / N).
C16_ProgressIsFloor ==
  [][\A w \in Workers :
       (worker[w].pc = "frame" /\ worker'[w].idx = worker[w].idx + 1)
         => \E i \in (Len(events) + 1)..Len(events') :
              /\ events'[i].w = w
              /\ events'[i].type = "progress"
              /\ events'[i].value = (worker'[w].idx * 100) \div worker[w].frames]_vars

\* the scale the claim derives from a model id: x2 if it contains 'x2', else x3
\* if it contains 'x3', else x4
ExpectedScale(model) ==
  LET has(d) == \E i \in 1..(Len(model) - 1) : model[i] = "x" /\ model[i + 1] = d
  IN IF has("2") THEN "x2" ELSE IF has("3") THEN "x3" ELSE "x4"

\* C14: the output name of a job is {stem}_upscaled_{scale}{ext}: ext is the
\* input's own extension when the job's input is a video (the job runs the video
\* pipeline) and '.' + image format otherwise; scale is x2, x3 or x4 by the first
\* of 'x2', 'x3', 'x4' the model id contains, x4 when it contains none.
C14_OutputName ==
  \A w \in Workers :
    worker[w].pc \notin {"none", "gone"}
      => worker[w].output_path
           = PathStem(worker[w].file_path)
               \o <<"_upscaled_", ExpectedScale(worker[w].settings.model)>>
               \o (IF is_video(worker[w].file_path)
                     THEN PathSuffix(worker[w].file_path)
                     ELSE <<".", worker[w].settings.format>>)

\* the scale tag of an output name: what follows "_upscaled_"
ScaleTag(output_path) ==
  output_path[(CHOOSE i \in 1..Len(output_path) : output_path[i] = "_upscaled_") + 1]

\* C15: the scale tag of a job's output name is the scale of the model id passed
\* to every upscaler process of the job.
C15_ScaleTagMatchesModel ==
  \A w \in Workers :
    \A j \in 1..Len(worker[w].spawned) :
      worker[w].spawned[j].what \in {"upscaler", "frame"}
        => ScaleTag(worker[w].output_path) = scale_of(worker[w].spawned[j].model)

\* the calls of _get_ffmpeg_path that found nothing
FailedLookups(r) == {i \in 1..Len(r.ffmpeg_lookups) : ~r.ffmpeg_lookups[i].found}

ProcessRunning == {"communicate", "extract", "frame", "audio", "mux"}

\* C22: a call of cancel() on a job one of whose external processes is running
\* (the image upscaler, or a video job's extraction, frame upscaler, audio
\* extraction or mux) sets the cancellation flag and terminates that process.
C22_CancelTerminatesRunningProcess ==
  [][\A w \in Workers :
       (/\ ~worker[w].is_cancelled
        /\ worker'[w].is_cancelled
        /\ worker[w].pc \in ProcessRunning)
         => worker'[w].current_process = "terminated"]_vars

\* C23: at any time at most one job of the batch is dispatched and not yet in a
\* terminal state, whether earlier jobs succeeded or failed.
C23_OneJobAtATime ==
  Cardinality({w \in Workers : Unfinished(worker[w])}) <= 1

\* C24: the jobs dispatched to the pool whose finished event the controller has
\* not handled yet are never more than the pool's maximum thread count.
C24_DispatchedWithinMaxThreads ==
  Cardinality({w \in Workers : worker[w].pc \notin {"none", "gone"}}) <= maxThreadCount

Terminal == {"finally", "done", "gone"}

C25_DistinctOutputPaths ==
  [][(next_id' = next_id + 1 /\ starts' = starts)
       => \A i \in dispatched :
            worker'[next_id].output_path
              # output_filename(file_list[i], get_current_settings)]_vars

\* what makes a video job fail: a lookup of ffmpeg or of the upscaler that found
\* nothing, an extraction or a mux that exited non-zero, an empty frame list
FailureCause(r) ==
  \/ FailedLookups(r) # {}
  \/ r.located = "missing"
  \/ r.listed = 0
  \/ \E i \in Returned(r, "extract") \cup Returned(r, "mux") : ~r.returned[i].ok

\* C27: a video job whose temporary directory could not be removed has logged
\* the warning, and its error and result events are what they are for a job
\* whose directory was removed: one error if and only if the job had a cause of
\* failure, a result if and only if the mux exited with code 0.
C27_CleanupFailureOnlyLogged ==
  \A w \in Workers :
    (worker[w].pc = "done" /\ worker[w].ws = "exists")
      => /\ Cardinality(Logs(worker[w], CleanupWarningText)) = 1
         /\ Count(worker[w].emitted, "error") = (IF FailureCause(worker[w]) THEN 1 ELSE 0)
         /\ Count(worker[w].emitted, "result") = 1
              <=> (/\ worker[w].returned # <<>>
                   /\ Last(worker[w].returned).what = "mux"
                   /\ Last(worker[w].returned).ok)
         /\ Count(worker[w].emitted, "finished") = 1

\* a video job has emitted its result and ended, its directory still there
C27_Witness ==
  \E w \in Workers :
    /\ worker[w].pc = "done"
    /\ worker[w].ws = "exists"
    /\ worker[w].rmtree_calls = 1
    /\ Count(worker[w].emitted, "result") = 1
    /\ Count(worker[w].emitted, "error") = 0

\* C28 as stated: once the mux of a video job has returned, with exit code 0 or
\* not, the job's temporary audio file does not exist.
C28_TempAudioGone ==
  \A w \in Workers :
    Returned(worker[w], "mux") # {} => worker[w].temp_audio # "exists"

\* C28 amended: os.remove(temp_audio) is called exactly once, when the mux has
\* returned, whether its exit code is 0 or not, and never before; after it
\* the file does not exist unless that call failed.
C28_TempAudioRemovalAttempted ==
  \A w \in Workers :
    /\ Returned(worker[w], "mux") = {} => worker[w].audio_removals = <<>>
    /\ Returned(worker[w], "mux") # {}
         => /\ Len(worker[w].audio_removals) = 1
            /\ worker[w].temp_audio = "exists" <=> worker[w].audio_removals[1] = "failed"

\* the mux of a job failed and the audio file it had extracted is removed
C28_Witness ==
  \E w \in Workers :
    /\ worker[w].pc = "done"
    /\ Returned(worker[w], "mux") # {}
    /\ ~Last(worker[w].returned).ok
    /\ worker[w].audio_removals = <<"removed">>
    /\ worker[w].temp_audio = "removed"

\* C29: every frame of a video job is upscaled with a model id the image
\* pipeline passes for the same settings, whatever models directory both find
\* (where the image pipeline resolves a model at all).
C29_FrameModelIsImageModel ==
  \A w \in Workers :
    \A j \in 1..Len(worker[w].spawned) :
      worker[w].spawned[j].what = "frame"
        => \A dir \in ModelsDirs :
             (dir.exists /\ resolve_model(worker[w].settings.model, dir) # {})
               => worker[w].spawned[j].model \in resolve_model(worker[w].settings.model, dir)

\* C30: the remaining time computed at a time-estimate update, (total_files -
\* processed_files) * (elapsed / processed_files), is never negative.
C30_RemainingNeverNegative ==
  ~time_estimate.remaining.negative

\* the locations of C31 in probing order, and the candidate a location has for
\* a name: the file of that name in the directory, on PATH the executable that
\* a PATH lookup of the name resolves to (<<>>: no candidate)
Locations == <<"cwd", "bin", "PATH">>
CandidateAt(disk, location, name) ==
  CASE location = "cwd" -> IF disk["."][name] # "absent" THEN <<".", "/", name>> ELSE <<>>
    [] location = "bin" -> IF disk["bin"][name] # "absent" THEN <<"bin", "/", name>> ELSE <<>>
    [] location = "PATH" ->
         IF disk[EnvPath[1]][name] = "executable" THEN <<EnvPath[1], "/", name>>
         ELSE IF disk[EnvPath[2]][name] = "executable" THEN <<EnvPath[2], "/", name>>
         ELSE <<>>
ProbeOrder ==
  [k \in 1..(3 * 4) |-> [location |-> Locations[((k - 1) \div 4) + 1],
                         name |-> possible_names[((k - 1) % 4) + 1]]]
Probe(disk, k) == CandidateAt(disk, ProbeOrder[k].location, ProbeOrder[k].name)

\* C31: the upscaler found is the first existing candidate in the order working
\* directory, bin, PATH (names in list order within each), and None when there
\* is no candidate anywhere
C31_LocatesFirstCandidate ==
  \A w \in observed :
    worker[w].located # "unknown" =>
      LET disk == worker[w].probed
          hits == {k \in DOMAIN ProbeOrder : Probe(disk, k) # <<>>}
      IN /\ hits = {} => worker[w].exe_path = <<>> /\ worker[w].located = "missing"
         /\ hits # {} =>
              /\ worker[w].exe_path = Probe(disk, CHOOSE k \in hits : \A j \in hits : k <= j)
              /\ worker[w].located = "found"

\* a later name in the working directory wins over an earlier name in bin
C31_Witness ==
  \E w \in observed :
    /\ worker[w].located = "found"
    /\ worker[w].probed["."][possible_names[2]] = "file"
    /\ worker[w].probed["bin"][possible_names[1]] = "file"
    /\ worker[w].exe_path = <<".", "/", possible_names[2]>>

\* C32: batch completion (processing_completed and its summary) is reported at
\* most once per started batch
C32_CompletionReportedOnce == reports <= 1

\* C33: once stop_processing has put the controller in the Stopped state, it
\* leaves that state only by the next start: completion is not reported
C33_StoppedUntilNextStart ==
  [][(status = "Stopped" /\ starts' = starts) => status' = "Stopped"]_vars

\* a worker dispatched before the last start and cancelled by stop_processing,
\* its object still alive: start_upscaling cleared current_workers
StoppedEarlier(w) ==
  /\ worker[w].pc \notin {"none", "gone"}
  /\ worker[w].is_cancelled
  /\ w \notin Range(current_workers)

\* C34: the delivery of an event of a worker of a stopped batch changes neither
\* the counter, nor the progress, nor what is dispatched, of the batch started
\* afterwards
C34_StaleEventsIgnored ==
  [][(/\ events # <<>>
      /\ events' = Tail(events)
      /\ StoppedEarlier(Head(events).w)
      /\ status = "Processing...")
       => UNCHANGED <<processed_files, overall_progress, current_progress,
                      next_id, dispatched, status>>]_vars

\* C35: a job that ends because it was cancelled (an image job whose upscaler
\* process cancel() terminated, a video job that finds the flag set at the head
\* of its frame loop) emits neither a result nor an error event
C35_CancelledJobEmitsNoOutcome ==
  [][\A w \in observed :
       (\/ /\ worker[w].pc = "communicate"
           /\ worker[w].current_process = "terminated"
           /\ worker'[w].pc # "communicate"
        \/ /\ worker[w].pc = "loop"
           /\ worker[w].is_cancelled
           /\ worker'[w].pc # "loop")
         => /\ Count(worker'[w].emitted, "error") = 0
            /\ Count(worker'[w].emitted, "result") = 0]_vars

\* where a video job is before its check of the flag after the frame loop
BeforePostUpscaleCheck == {"queued", "extract", "loop", "frame"}

\* C36: once the flag of a video job is set before its check after the frame
\* loop, the job starts at most one further frame upscaling, and neither the
\* audio extraction nor the mux
C36_CancelStopsVideoStages ==
  \A w \in observed :
    (is_video(worker[w].file_path) /\ worker[w].first_cancel.pc \in BeforePostUpscaleCheck)
      => LET later == {i \in 1..Len(worker[w].spawned) : i > worker[w].first_cancel.spawned}
         IN /\ Cardinality({i \in later : worker[w].spawned[i].what = "frame"}) <= 1
            /\ \A i \in 1..Len(worker[w].spawned) :
                 worker[w].spawned[i].what \notin {"audio", "mux"}

\* a job of MaxFrames frames, cancelled between its first and its second frame,
\* has ended with one frame upscaled
C36_Witness ==
  \E w \in observed :
    /\ worker[w].pc = "done"
    /\ worker[w].frames = MaxFrames
    /\ worker[w].first_cancel = [pc |-> "loop", spawned |-> 2]
    /\ Len(worker[w].spawned) = 2

\* C37: an image job on which cancel() was called before its upscaler process
\* was started (the worker queued in the pool, or resolving tools and models)
\* does not start the process afterwards
C37_CancelledBeforeSpawnNeverSpawns ==
  \A w \in observed :
    (/\ ~is_video(worker[w].file_path)
     /\ worker[w].first_cancel.pc = "queued")
      => ~Spawned(worker[w], "upscaler")

\* where a video job is while it uses its temporary audio file: between the
\* start of the audio extraction and the removal that follows the mux
UsesTempAudio == {"audio", "mux"}

\* C38: two video jobs that use their temporary audio files at the same time
\* use different paths
C38_DistinctTempAudioPaths ==
  \A v, w \in Workers :
    (/\ v # w
     /\ worker[v].pc \in UsesTempAudio
     /\ worker[w].pc \in UsesTempAudio)
      => temp_audio_path(worker[v].output_path) # temp_audio_path(worker[w].output_path)

\* C39: the files a batch dispatches are those of the list at start_upscaling,
\* each once, whatever is added to, cleared from or moved in the list while the
\* batch runs, and no dispatch step fails: no slot ends by an exception, and no
\* file is given to two workers
C39_EditsLeaveDispatchAlone ==
  /\ main_pc # "raised"
  /\ \A v, w \in Workers :
       (v # w /\ InFlight(worker[v]) /\ InFlight(worker[w]))
         => worker[v].file_path # worker[w].file_path

====
